---- MODULE Spec2Model ----
(***************************************************************************)
(* AI Study Buddy (src/app.py): a Streamlit script.  Every user            *)
(* interaction re-executes the script top to bottom (one "run"); the       *)
(* widgets keep their values between runs, the page content is rebuilt by  *)
(* each run, and the result of get_available_models is kept by             *)
(* st.cache_data for the life of the process.                              *)
(*                                                                         *)
(* Strings are sequences of tokens: a user text is a sequence of           *)
(* characters, a fixed message is a one-token sequence, an f-string is the *)
(* sequence of its pieces.                                                 *)
(***************************************************************************)
EXTENDS Naturals, Sequences, FiniteSets

VARIABLES
    \* widget state, kept by the session between runs
    choice,            \* st.radio "Select Action:"
    selIdx,            \* position chosen in st.selectbox "Choose AI Model:"
    text_input,        \* st.text_area
    image_input,       \* st.file_uploader: "none", or the kind of file uploaded
    pageOpen,          \* a browser session has the page open
    \* process-wide
    cache,             \* st.cache_data entry of get_available_models: <<>> or <<entry>>
    \* the run in progress (or the last one, when pc = "idle")
    pc,                \* position of the script
    clicked,           \* value returned by st.button in this run
    available_models,  \* line 47
    selected_model,    \* lines 51 / 58
    img,               \* line 69
    model,             \* lines 86 / 95 / 98
    fbIdx,             \* position of the for loop of line 96
    final_input,       \* line 114
    response,          \* line 122
    \* what the run has put on the page
    errors,            \* st.error boxes and the framework's exception box
    warnings,          \* st.warning
    infos,             \* st.info
    notices,           \* st.sidebar.success
    output,            \* st.markdown in col2
    buttonRendered,    \* line 73 was reached, the button is on the page
    \* calls to the provider made by the run
    listCalls,         \* genai.list_models()
    instCalls,         \* genai.GenerativeModel(name), in order
    genCalls,          \* model.generate_content(payload), in order
    raised             \* the exceptions raised during the run, and by what

vars == <<choice, selIdx, text_input, image_input, pageOpen, cache, pc, clicked,
          available_models, selected_model, img, model, fbIdx, final_input,
          response, errors, warnings, infos, notices, output, buttonRendered,
          listCalls, instCalls, genCalls, raised>>

widgets == <<choice, selIdx, text_input, image_input>>

run == <<pc, clicked, available_models, selected_model, img, model, fbIdx,
         final_input, response>>

page == <<errors, warnings, infos, notices, output, buttonRendered>>

calls == <<listCalls, instCalls, genCalls>>

-----------------------------------------------------------------------------
(* Bounds of the model *)

\* longest sequence genai.list_models() returns
MaxModels == 2
\* longest short text typed into the text area
MaxShort == 2
\* how far beyond the truncation limit the long texts go
MaxOver == 2

(* Program constants *)

\* text_input[:10000] if len(text_input) > 10000
TruncLimit == 10000

-----------------------------------------------------------------------------
(* Inputs *)

Actions == {"Explain Concept", "Generate Quiz", "Make Flashcards"}

Alphabet == <<"a", "b", "c">>

\* the text of n characters whose i-th character is fixed by i
Text(n) == [i \in 1..n |-> Alphabet[(i % 3) + 1]]

ShortTexts == {Text(n) : n \in 0..MaxShort}

LongTexts == {Text(n) : n \in (TruncLimit - 1)..(TruncLimit + MaxOver)}

\* kinds of uploaded file: one PIL opens, one it does not
Uploads == {"valid", "corrupt"}

\* names the provider reports; 'models/' is one token
ModelNames == { <<"models/", "gemini-pro">>,
                <<"gemini-pro">>,
                <<"models/", "gemini-1.5-flash">> }

MethodSets == { {"generateContent"}, {"embedContent"} }

ModelRecords == [name : ModelNames, supported_generation_methods : MethodSets]

SeqsUpTo(S, n) == UNION {[1..k -> S] : k \in 0..n}

Listings == SeqsUpTo(ModelRecords, MaxModels)

\* exceptions the provider's calls raise
Exceptions == {"NotFound", "PermissionDenied"}

\* texts the generation call returns
Responses == {<<"r", "1">>, <<"r", "2">>}

\* an optional value: None, or Some(x)
None == <<>>
Some(x) == <<x>>

-----------------------------------------------------------------------------
(* Pure parts of the script *)

\* line 28: model.name.replace('models/', '')
DisplayName(name) == SelectSeq(name, LAMBDA t : t # "models/")

\* lines 29-32
Descriptor(m) == [full_name |-> m.name, display_name |-> DisplayName(m.name)]

\* lines 24-33: the models that support generateContent, in listing order
ValidModels(models) ==
    LET keep == SelectSeq(models,
                    LAMBDA m : "generateContent" \in m.supported_generation_methods)
    IN  [i \in 1..Len(keep) |-> Descriptor(keep[i])]

\* line 50
ModelOptions(catalog) == [i \in 1..Len(catalog) |-> catalog[i].display_name]

\* faulty variant of line 74: the test compares the widgets' values with
\* None, which an empty text area ('') never is
InputMissing_NeverEmpty(text, image) == FALSE

\* line 74
InputMissing(text, image) == text = <<>> /\ image = "none"

\* lines 82-85: positions of the descriptors next() iterates over
Matching(catalog, sel) == {i \in 1..Len(catalog) : catalog[i].display_name = sel}

First(S) == CHOOSE i \in S : \A j \in S : i <= j

\* faulty variant of lines 82-85: the last match, as a loop that keeps
\* overwriting selected_full would give
SelectedFull_Last(catalog, sel) ==
    LET S == Matching(catalog, sel)
    IN  catalog[CHOOSE i \in S : \A j \in S : j <= i].full_name

\* lines 82-85: next(...) yields the first match
SelectedFull(catalog, sel) == catalog[First(Matching(catalog, sel))].full_name

\* faulty variant of lines 89-94: the legacy name is tried first
model_names_to_try_LegacyFirst ==
    << <<"gemini-pro">>, <<"gemini-1.5-flash">>, <<"gemini-1.5-pro">>,
       <<"gemini-1.0-pro">> >>

\* lines 89-94
model_names_to_try ==
    << <<"gemini-1.5-flash">>, <<"gemini-1.5-pro">>, <<"gemini-1.0-pro">>,
       <<"gemini-pro">> >>

\* faulty variant of lines 108-112: quiz and flashcard instructions exchanged
prompts_Swapped(c) ==
    CASE c = "Explain Concept" ->
            <<"Summarize this content into easy bullet points and explain complex terms simply.">>
      [] c = "Generate Quiz" ->
            <<"Create 5 Question & Answer pairs from this content.">>
      [] c = "Make Flashcards" ->
            <<"Create 5 multiple choice questions with answers based on this content.">>

\* lines 108-112
prompts(c) ==
    CASE c = "Explain Concept" ->
            <<"Summarize this content into easy bullet points and explain complex terms simply.">>
      [] c = "Generate Quiz" ->
            <<"Create 5 multiple choice questions with answers based on this content.">>
      [] c = "Make Flashcards" ->
            <<"Create 5 Question & Answer pairs from this content.">>

\* faulty variant of line 117: text_input[-10000:], the last characters
Truncate_Tail(text) ==
    IF Len(text) > TruncLimit
    THEN SubSeq(text, Len(text) - TruncLimit + 1, Len(text))
    ELSE text

\* line 117
Truncate(text) ==
    IF Len(text) > TruncLimit THEN SubSeq(text, 1, TruncLimit) ELSE text

\* parts of a payload
StrPart(s) == [kind |-> "str", val |-> s]
ImagePart(i) == [kind |-> "image", val |-> i]

\* faulty variant of lines 114-120: the image is appended before the text
FinalInput_ImageFirst(c, text, image, im) ==
    <<StrPart(prompts(c))>>
        \o (IF image # "none" THEN <<ImagePart(im)>> ELSE <<>>)
        \o (IF text # <<>> THEN <<StrPart(Truncate(text))>> ELSE <<>>)

\* lines 114-120
FinalInput(c, text, image, im) ==
    <<StrPart(prompts(c))>>
        \o (IF text # <<>> THEN <<StrPart(Truncate(text))>> ELSE <<>>)
        \o (IF image # "none" THEN <<ImagePart(im)>> ELSE <<>>)

(* Messages *)

FetchErrorMsg(e) == <<"Error fetching models: ", e>>
NoModelsMsg == <<"No models found. Using default model name.">>
MissingInputMsg == <<"Please provide text or an image first.">>
UsingModelMsg(name) == <<"Using model: ">> \o name
NoWorkingModelMsg ==
    <<"Could not find any working model. Please check your API key and permissions.">>
ErrorMsg(e) == <<"Error: ", e>>
HintMsg == <<"Try selecting a different model from the sidebar dropdown.">>
\* the box Streamlit draws for an exception the script does not catch
UncaughtMsg(e) == <<"Uncaught exception: ", e>>

-----------------------------------------------------------------------------
(* The state before the first page load *)

Init ==
    /\ choice = "Explain Concept"
    /\ selIdx = 1
    /\ text_input = <<>>
    /\ image_input = "none"
    /\ pageOpen = FALSE
    /\ cache = None
    /\ pc = "idle"
    /\ clicked = FALSE
    /\ available_models = <<>>
    /\ selected_model = <<>>
    /\ img = None
    /\ model = None
    /\ fbIdx = 1
    /\ final_input = <<>>
    /\ response = None
    /\ errors = <<>>
    /\ warnings = <<>>
    /\ infos = <<>>
    /\ notices = <<>>
    /\ output = None
    /\ buttonRendered = FALSE
    /\ listCalls = 0
    /\ instCalls = <<>>
    /\ genCalls = <<>>
    /\ raised = {}

-----------------------------------------------------------------------------
(* The user: each interaction starts a run of the script *)

\* a run starts with an empty page and fresh script globals
StartRun(button) ==
    /\ pc' = "models"
    /\ clicked' = button
    /\ available_models' = <<>>
    /\ selected_model' = <<>>
    /\ img' = None
    /\ model' = None
    /\ fbIdx' = 1
    /\ final_input' = <<>>
    /\ response' = None
    /\ errors' = <<>>
    /\ warnings' = <<>>
    /\ infos' = <<>>
    /\ notices' = <<>>
    /\ output' = None
    /\ buttonRendered' = FALSE
    /\ listCalls' = 0
    /\ instCalls' = <<>>
    /\ genCalls' = <<>>
    /\ raised' = {}
    /\ UNCHANGED cache

\* opening or reloading the page: a new session, the widgets at their defaults
PageLoad ==
    /\ pc = "idle"
    /\ pageOpen' = TRUE
    /\ choice' = "Explain Concept"
    /\ selIdx' = 1
    /\ text_input' = <<>>
    /\ image_input' = "none"
    /\ StartRun(FALSE)

\* line 41: the radio
SelectAction ==
    /\ pc = "idle" /\ pageOpen
    /\ \E c \in Actions \ {choice} : choice' = c
    /\ UNCHANGED <<selIdx, text_input, image_input, pageOpen>>
    /\ StartRun(FALSE)

\* line 51: the selectbox, on the page when the last run had a catalog
ChooseModel ==
    /\ pc = "idle" /\ pageOpen
    /\ \E i \in (1..Len(available_models)) \ {selIdx} : selIdx' = i
    /\ UNCHANGED <<choice, text_input, image_input, pageOpen>>
    /\ StartRun(FALSE)

\* line 65: the text area
EditText ==
    /\ pc = "idle" /\ pageOpen
    /\ \E t \in ShortTexts \ {text_input} : text_input' = t
    /\ UNCHANGED <<choice, selIdx, image_input, pageOpen>>
    /\ StartRun(FALSE)

\* line 66: the uploader (upload, replace or remove a file)
SetImage ==
    /\ pc = "idle" /\ pageOpen
    /\ \E f \in (Uploads \cup {"none"}) \ {image_input} : image_input' = f
    /\ UNCHANGED <<choice, selIdx, text_input, pageOpen>>
    /\ StartRun(FALSE)

\* line 73: the button, when the last run drew it
Click ==
    /\ pc = "idle" /\ pageOpen /\ buttonRendered
    /\ UNCHANGED <<widgets, pageOpen>>
    /\ StartRun(TRUE)

-----------------------------------------------------------------------------
(* The script *)

\* an exception is raised by the call op
Raise(op, e) == raised' = raised \cup {[op |-> op, exc |-> e]}

\* lines 49-58: the sidebar's model settings
Sidebar(catalog) ==
    IF catalog # <<>>
    THEN /\ selected_model' = ModelOptions(catalog)[selIdx]
         /\ UNCHANGED warnings
    ELSE /\ warnings' = Append(warnings, NoModelsMsg)
         /\ selected_model' = <<"gemini-pro">>

\* lines 19-36, 47: no cached result, the function body runs
GetAvailableModels ==
    /\ pc = "models" /\ cache = None
    /\ listCalls' = listCalls + 1
    /\ \/ \E models \in Listings :
            /\ available_models' = ValidModels(models)
            /\ cache' = Some([value |-> ValidModels(models), replay |-> <<>>])
            /\ UNCHANGED <<errors, raised>>
            /\ Sidebar(ValidModels(models))
       \/ \E e \in Exceptions :
            /\ available_models' = <<>>
            /\ cache' = Some([value |-> <<>>, replay |-> <<FetchErrorMsg(e)>>])
            /\ errors' = Append(errors, FetchErrorMsg(e))
            /\ Raise("list_models", e)
            /\ Sidebar(<<>>)
    /\ pc' = "input"
    /\ UNCHANGED <<widgets, pageOpen, clicked, img, model, fbIdx, final_input,
                   response, infos, notices, output, buttonRendered,
                   instCalls, genCalls>>

\* line 19, 47: st.cache_data returns the stored result and replays the
\* elements the call drew; the body does not run
GetAvailableModelsCached ==
    /\ pc = "models" /\ cache # None
    /\ available_models' = cache[1].value
    /\ errors' = errors \o cache[1].replay
    /\ Sidebar(cache[1].value)
    /\ pc' = "input"
    /\ UNCHANGED <<widgets, pageOpen, cache, clicked, img, model, fbIdx,
                   final_input, response, infos, notices, output,
                   buttonRendered, calls, raised>>

\* lines 68-70: Image.open is outside the try; an exception ends the run in
\* the framework's exception box, before the button is drawn
InputSection ==
    /\ pc = "input"
    /\ CASE image_input = "none" ->
                /\ pc' = "button"
                /\ UNCHANGED <<img, errors, raised>>
         [] image_input = "valid" ->
                /\ img' = Some(image_input)
                /\ pc' = "button"
                /\ UNCHANGED <<errors, raised>>
         [] image_input = "corrupt" ->
                /\ Raise("Image.open", "UnidentifiedImageError")
                /\ errors' = Append(errors, UncaughtMsg("UnidentifiedImageError"))
                /\ pc' = "idle"
                /\ UNCHANGED img
    /\ UNCHANGED <<widgets, pageOpen, cache, clicked, available_models,
                   selected_model, model, fbIdx, final_input, response,
                   warnings, infos, notices, output, buttonRendered, calls>>

\* line 73: the button was not pressed, the script ends
NotClicked ==
    /\ pc = "button" /\ ~clicked
    /\ buttonRendered' = TRUE
    /\ pc' = "idle"
    /\ UNCHANGED <<widgets, pageOpen, cache, clicked, available_models,
                   selected_model, img, model, fbIdx, final_input, response,
                   errors, warnings, infos, notices, output, calls, raised>>

\* lines 73-76
Validate ==
    /\ pc = "button" /\ clicked
    /\ buttonRendered' = TRUE
    /\ IF InputMissing(text_input, image_input)
       THEN /\ errors' = Append(errors, MissingInputMsg)
            /\ pc' = "idle"
       ELSE /\ pc' = "select"
            /\ UNCHANGED errors
    /\ UNCHANGED <<widgets, pageOpen, cache, clicked, available_models,
                   selected_model, img, model, fbIdx, final_input, response,
                   warnings, infos, notices, output, calls, raised>>

\* faulty variant of lines 128-130: line 130 missing
HandleException_NoHint(op, e) ==
    /\ Raise(op, e)
    /\ errors' = Append(errors, ErrorMsg(e))
    /\ UNCHANGED infos
    /\ pc' = "idle"

\* lines 128-130: except Exception as e
HandleException(op, e) ==
    /\ Raise(op, e)
    /\ errors' = Append(errors, ErrorMsg(e))
    /\ infos' = Append(infos, HintMsg)
    /\ pc' = "idle"

\* lines 80-86: the catalog is not empty
UseSelected ==
    /\ pc = "select" /\ available_models # <<>>
    /\ IF Matching(available_models, selected_model) = {}
       THEN /\ HandleException("next", "StopIteration")
            /\ UNCHANGED <<model, instCalls>>
       ELSE LET selected_full == SelectedFull(available_models, selected_model)
            IN  /\ instCalls' = Append(instCalls, selected_full)
                /\ \/ /\ model' = Some(selected_full)
                      /\ pc' = "build"
                      /\ UNCHANGED <<errors, infos, raised>>
                   \/ /\ \E e \in Exceptions : HandleException("GenerativeModel", e)
                      /\ UNCHANGED model
    /\ UNCHANGED <<widgets, pageOpen, cache, clicked, available_models,
                   selected_model, img, fbIdx, final_input, response,
                   warnings, notices, output, buttonRendered, listCalls,
                   genCalls>>

\* lines 87-95: the catalog is empty
EnterFallback ==
    /\ pc = "select" /\ available_models = <<>>
    /\ model' = None
    /\ fbIdx' = 1
    /\ pc' = "fallback"
    /\ UNCHANGED <<widgets, pageOpen, cache, clicked, available_models,
                   selected_model, img, final_input, response, page, calls,
                   raised>>

\* lines 96-102: one turn of the loop
TryCandidate ==
    /\ pc = "fallback" /\ fbIdx <= Len(model_names_to_try)
    /\ LET model_name == model_names_to_try[fbIdx]
       IN  /\ instCalls' = Append(instCalls, model_name)
           /\ \/ /\ model' = Some(model_name)
                 /\ notices' = Append(notices, UsingModelMsg(model_name))
                 /\ pc' = "build"
                 /\ UNCHANGED <<fbIdx, raised>>
              \/ /\ \E e \in Exceptions : Raise("GenerativeModel", e)
                 /\ fbIdx' = fbIdx + 1
                 /\ UNCHANGED <<model, notices, pc>>
    /\ UNCHANGED <<widgets, pageOpen, cache, clicked, available_models,
                   selected_model, img, final_input, response, errors,
                   warnings, infos, output, buttonRendered, listCalls,
                   genCalls>>

\* faulty variant of lines 104-106: the halt is an exception the handler of
\* line 128 catches
FallbackExhausted_Caught ==
    /\ pc = "fallback" /\ fbIdx > Len(model_names_to_try)
    /\ model = None
    /\ errors' = errors \o <<NoWorkingModelMsg, ErrorMsg("StopException")>>
    /\ infos' = Append(infos, HintMsg)
    /\ pc' = "idle"
    /\ UNCHANGED <<widgets, pageOpen, cache, clicked, available_models,
                   selected_model, img, model, fbIdx, final_input, response,
                   warnings, notices, output, buttonRendered, calls, raised>>

\* lines 104-106: st.stop() ends the run; its StopException is not an
\* Exception, the handler of line 128 does not see it
FallbackExhausted ==
    /\ pc = "fallback" /\ fbIdx > Len(model_names_to_try)
    /\ model = None
    /\ errors' = Append(errors, NoWorkingModelMsg)
    /\ pc' = "idle"
    /\ UNCHANGED <<widgets, pageOpen, cache, clicked, available_models,
                   selected_model, img, model, fbIdx, final_input, response,
                   warnings, infos, notices, output, buttonRendered, calls,
                   raised>>

\* lines 108-120
BuildPayload ==
    /\ pc = "build"
    /\ final_input' = FinalInput(choice, text_input, image_input, img)
    /\ pc' = "generate"
    /\ UNCHANGED <<widgets, pageOpen, cache, clicked, available_models,
                   selected_model, img, model, fbIdx, response, page, calls,
                   raised>>

\* faulty variant of line 122: a failed call is repeated once
Generate_Retry ==
    /\ pc = "generate"
    /\ genCalls' = Append(genCalls, [model |-> model[1], payload |-> final_input])
    /\ \/ \E r \in Responses :
            /\ response' = Some(r)
            /\ pc' = "render"
            /\ UNCHANGED <<errors, infos, raised>>
       \/ /\ genCalls = <<>>
          /\ \E e \in Exceptions : Raise("generate_content", e)
          /\ UNCHANGED <<response, errors, infos, pc>>
       \/ /\ genCalls # <<>>
          /\ \E e \in Exceptions : HandleException("generate_content", e)
          /\ UNCHANGED response
    /\ UNCHANGED <<widgets, pageOpen, cache, clicked, available_models,
                   selected_model, img, model, fbIdx, final_input, warnings,
                   notices, output, buttonRendered, listCalls, instCalls>>

\* line 122
Generate ==
    /\ pc = "generate"
    /\ genCalls' = Append(genCalls, [model |-> model[1], payload |-> final_input])
    /\ \/ \E r \in Responses :
            /\ response' = Some(r)
            /\ pc' = "render"
            /\ UNCHANGED <<errors, infos, raised>>
       \/ /\ \E e \in Exceptions : HandleException("generate_content", e)
          /\ UNCHANGED response
    /\ UNCHANGED <<widgets, pageOpen, cache, clicked, available_models,
                   selected_model, img, model, fbIdx, final_input, warnings,
                   notices, output, buttonRendered, listCalls, instCalls>>

\* lines 124-126: response.text raises when the response carries no text
Render ==
    /\ pc = "render"
    /\ \/ /\ output' = Some(response[1])
          /\ pc' = "idle"
          /\ UNCHANGED <<errors, infos, raised>>
       \/ /\ HandleException("response.text", "ValueError")
          /\ UNCHANGED output
    /\ UNCHANGED <<widgets, pageOpen, cache, clicked, available_models,
                   selected_model, img, model, fbIdx, final_input, response,
                   warnings, notices, buttonRendered, calls>>

-----------------------------------------------------------------------------

Next ==
    \/ PageLoad
    \/ SelectAction
    \/ ChooseModel
    \/ EditText
    \/ SetImage
    \/ Click
    \/ GetAvailableModels
    \/ GetAvailableModelsCached
    \/ InputSection
    \/ NotClicked
    \/ Validate
    \/ UseSelected
    \/ EnterFallback
    \/ TryCandidate
    \/ FallbackExhausted
    \/ BuildPayload
    \/ Generate
    \/ Render

Spec == Init /\ [][Next]_vars

-----------------------------------------------------------------------------
(* Payload assembly on long texts: an accepted run that has its model (the   *)
(* first fallback candidate, the catalog being empty) and is about to build  *)
(* the payload, for every action, short or long text and image.              *)

InitLong ==
    /\ choice \in Actions
    /\ selIdx = 1
    /\ text_input \in ShortTexts \cup LongTexts
    /\ image_input \in {"none", "valid"}
    /\ ~(text_input = <<>> /\ image_input = "none")
    /\ pageOpen = TRUE
    /\ cache = Some([value |-> <<>>, replay |-> <<>>])
    /\ pc = "build"
    /\ clicked = TRUE
    /\ available_models = <<>>
    /\ selected_model = <<"gemini-pro">>
    /\ img = IF image_input = "valid" THEN Some(image_input) ELSE None
    /\ model = Some(model_names_to_try[1])
    /\ fbIdx = 1
    /\ final_input = <<>>
    /\ response = None
    /\ errors = <<>>
    /\ warnings = <<NoModelsMsg>>
    /\ infos = <<>>
    /\ notices = <<UsingModelMsg(model_names_to_try[1])>>
    /\ output = None
    /\ buttonRendered = TRUE
    /\ listCalls = 0
    /\ instCalls = <<model_names_to_try[1]>>
    /\ genCalls = <<>>
    /\ raised = {}

NextLong ==
    \/ BuildPayload
    \/ Generate
    \/ Render

SpecLong == InitLong /\ [][NextLong]_vars

-----------------------------------------------------------------------------
(* Properties *)

Range(q) == {q[i] : i \in 1..Len(q)}

\* the run under way (or just ended) is a click with neither text nor image
EmptyClick == clicked /\ text_input = <<>> /\ image_input = "none"

\* C1: a click of 'Start Processing' with empty text and no image is rejected
\* with the inline validation error, and the run makes no call to the
\* provider: it neither instantiates a model nor calls generate_content (nor
\* lists the models, the catalog of a click's run coming from the cache).
C1_EmptyClickRejected ==
    EmptyClick =>
        /\ listCalls = 0
        /\ instCalls = <<>>
        /\ genCalls = <<>>
        /\ pc \in {"models", "input", "button", "idle"}
        /\ pc = "idle" =>
              /\ MissingInputMsg \in Range(errors)
              /\ output = None

C1_Witness ==
    /\ EmptyClick
    /\ pc = "idle"
    /\ errors = <<MissingInputMsg>>

\* C2: the text element of the payload handed to generate_content is the first
\* 10,000 characters of a longer input and the whole input otherwise; it never
\* exceeds 10,000 characters.
C2_TransmittedTextIsPrefix ==
    \A k \in 1..Len(genCalls) :
        text_input # <<>> =>
            LET sent == genCalls[k].payload[2]
            IN  /\ sent.kind = "str"
                /\ Len(sent.val) <= TruncLimit
                /\ Len(sent.val) = IF Len(text_input) > TruncLimit
                                   THEN TruncLimit ELSE Len(text_input)
                /\ \A i \in 1..Len(sent.val) : sent.val[i] = text_input[i]

C2_Witness ==
    /\ Len(text_input) > TruncLimit + 1
    /\ genCalls # <<>>
    /\ Len(genCalls[1].payload[2].val) = TruncLimit

\* the cached result of get_available_models is that of a failed listing
ListingFailed == cache # None /\ cache[1].replay # <<>>

\* C3: after a failed listing get_available_models returns the empty list, and
\* an accepted request tries gemini-1.5-flash, gemini-1.5-pro, gemini-1.0-pro,
\* gemini-pro in this order, stops at the first that instantiates and
\* announces that one name only.
C3_ListingFailureFallsBack ==
    ListingFailed =>
        LET order == << <<"gemini-1.5-flash">>, <<"gemini-1.5-pro">>,
                        <<"gemini-1.0-pro">>, <<"gemini-pro">> >>
        IN  /\ cache[1].value = <<>>
            /\ available_models = <<>>
            /\ Len(instCalls) <= Len(order)
            /\ instCalls = SubSeq(order, 1, Len(instCalls))
            /\ model # None =>
                  /\ model[1] = instCalls[Len(instCalls)]
                  /\ notices = << <<"Using model: ">> \o model[1] >>
            /\ model = None => notices = <<>>
            /\ pc \in {"build", "generate", "render"} => model # None
            /\ (pc = "idle" /\ clicked /\ ~EmptyClick /\ image_input # "corrupt")
                  => instCalls # <<>>

C3_Witness ==
    /\ ListingFailed
    /\ pc = "idle"
    /\ Len(instCalls) = 3
    /\ model = Some(<<"gemini-1.0-pro">>)
    /\ notices = << <<"Using model: ", "gemini-1.0-pro">> >>

\* every fallback candidate was tried and none instantiated
AllCandidatesFailed ==
    /\ available_models = <<>>
    /\ Len(instCalls) = 4
    /\ model = None

\* C4: when every fallback candidate fails, the run ends with 'Could not find
\* any working model...', generate_content is not called, and the generic
\* 'Error: ...' banner and its hint are not shown.
C4_ExhaustionHalts ==
    /\ model = None => (genCalls = <<>> /\ pc \notin {"build", "generate", "render"})
    /\ (AllCandidatesFailed /\ pc = "idle") =>
          /\ NoWorkingModelMsg \in Range(errors)
          /\ \A m \in Range(errors) : m[1] # "Error: "
          /\ infos = <<>>
          /\ output = None

C4_Witness ==
    /\ AllCandidatesFailed
    /\ pc = "idle"
    /\ NoWorkingModelMsg \in Range(errors)

\* the instruction the selected action stands for
InstructionOf(c) ==
    IF c = "Generate Quiz"
    THEN <<"Create 5 multiple choice questions with answers based on this content.">>
    ELSE IF c = "Explain Concept"
    THEN <<"Summarize this content into easy bullet points and explain complex terms simply.">>
    ELSE <<"Create 5 Question & Answer pairs from this content.">>

\* C5: the first element of the payload is the fixed instruction of the
\* selected action, whatever the text, the image and the model.
C5_InstructionByActionAlone ==
    /\ final_input # <<>> => final_input[1] = [kind |-> "str", val |-> InstructionOf(choice)]
    /\ \A k \in 1..Len(genCalls) :
          genCalls[k].payload[1] = [kind |-> "str", val |-> InstructionOf(choice)]

C5_Witness ==
    /\ choice = "Generate Quiz"
    /\ text_input # <<>>
    /\ image_input = "valid"
    /\ available_models # <<>>
    /\ genCalls # <<>>

\* C6: the payload of the generation call is [instruction, text if any, image
\* if any] in this order and nothing else; on success the output drawn is the
\* text the call returned.
C6_PayloadLayout ==
    /\ \A k \in 1..Len(genCalls) :
          LET p == genCalls[k].payload
              hasText == text_input # <<>>
              hasImage == image_input # "none"
          IN  /\ Len(p) = 1 + (IF hasText THEN 1 ELSE 0) + (IF hasImage THEN 1 ELSE 0)
              /\ Len(p) \in {2, 3}
              /\ p[1] = StrPart(InstructionOf(choice))
              /\ hasText => p[2] = StrPart(IF Len(text_input) > TruncLimit
                                           THEN SubSeq(text_input, 1, TruncLimit)
                                           ELSE text_input)
              /\ hasImage => p[Len(p)] = ImagePart(Some(image_input))
    /\ output # None =>
          /\ Len(genCalls) = 1
          /\ response # None
          /\ response[1] \in Responses
          /\ output = response

C6_Witness ==
    /\ pc = "idle"
    /\ output # None
    /\ Len(genCalls[1].payload) = 3

\* C7: a run that passes validation and obtains a model calls generate_content
\* exactly once, a failed call is not repeated, and a run without a model
\* (not a click, rejected, or no model instantiated) does not call it; only
\* the fallback loop repeats an attempt.
C7_OneGenerationCall ==
    /\ Len(genCalls) <= 1
    /\ listCalls <= 1
    /\ available_models # <<>> => Len(instCalls) <= 1
    /\ model = None => genCalls = <<>>
    /\ ~clicked => (model = None /\ instCalls = <<>>)
    /\ (pc \in {"render", "idle"} /\ model # None) => Len(genCalls) = 1

C7_Witness ==
    /\ pc = "idle"
    /\ \E x \in raised : x.op = "generate_content"
    /\ Len(genCalls) = 1

\* the run is a click rejected for missing input
Rejected == EmptyClick /\ buttonRendered

\* C8 as stated: every failure of a run ends in an inline error message, and a
\* generation or instantiation exception is shown verbatim with the hint.
C8_EveryFailureShown ==
    pc = "idle" =>
        /\ (raised # {} \/ Rejected \/ AllCandidatesFailed) => errors # <<>>
        /\ \A x \in raised :
              x.op \in {"GenerativeModel", "generate_content"} =>
                  /\ ErrorMsg(x.exc) \in Range(errors)
                  /\ HintMsg \in Range(infos)

\* C8, amended: every failure but the instantiation failure of a fallback
\* candidate has its message when the run ends: the validation error, the
\* 'Error fetching models' box, the exhaustion error, the framework's box for
\* a failed Image.open (the run ending before the button is drawn), and the
\* verbatim 'Error: <exception>' banner with the hint for a failed
\* instantiation of the selected catalog model and for a failed generation.
\* The exception of a fallback candidate is swallowed: alone it leaves no
\* banner and no hint.  The run ends idle, with the button drawn unless
\* Image.open failed.
C8_FailuresShownExceptSwallowed ==
    pc = "idle" =>
        /\ Rejected => MissingInputMsg \in Range(errors)
        /\ AllCandidatesFailed => NoWorkingModelMsg \in Range(errors)
        /\ \A x \in raised :
              /\ x.op = "list_models" => FetchErrorMsg(x.exc) \in Range(errors)
              /\ x.op = "Image.open" =>
                    (UncaughtMsg(x.exc) \in Range(errors) /\ ~buttonRendered)
              /\ (x.op \in {"generate_content", "response.text", "next"}
                    \/ (x.op = "GenerativeModel" /\ available_models # <<>>)) =>
                    /\ errors[Len(errors)] = ErrorMsg(x.exc)
                    /\ infos = <<HintMsg>>
        /\ (available_models = <<>> /\ genCalls = <<>>) =>
              /\ infos = <<>>
              /\ \A m \in Range(errors) : m[1] # "Error: "
        /\ pageOpen => (buttonRendered <=> image_input # "corrupt")

C8_Witness ==
    /\ pc = "idle"
    /\ available_models = <<>>
    /\ \E x \in raised : x.op = "GenerativeModel"
    /\ \E x \in raised : x.op = "generate_content"
    /\ infos = <<HintMsg>>

\* C9 as stated, for the runs the claim singles out: the catalog of every run
\* is the result of a listing call of that run, so a run whose catalog is the
\* empty list of a failed listing has made that failed call itself.
C9_FailedListingNotKept ==
    (pageOpen /\ pc # "models" /\ ListingFailed) => listCalls = 1

\* C10: with a non-empty catalog the model instantiated is the full_name of
\* the first descriptor whose display_name is the sidebar selection and the
\* fallback list is not used; with an empty catalog the fallback list is
\* tried from its first entry, whatever the sidebar default 'gemini-pro'.
C10_SelectionByCatalog ==
    /\ available_models # <<>> =>
          /\ selected_model = available_models[selIdx].display_name
          /\ pc # "fallback"
          /\ notices = <<>>
          /\ Len(instCalls) <= 1
          /\ instCalls # <<>> =>
                \E i \in 1..Len(available_models) :
                    /\ available_models[i].display_name = selected_model
                    /\ \A j \in 1..(i - 1) :
                          available_models[j].display_name # selected_model
                    /\ instCalls[1] = available_models[i].full_name
          /\ model # None => model[1] = instCalls[1]
    /\ (available_models = <<>> /\ instCalls # <<>>) =>
          /\ selected_model = <<"gemini-pro">>
          /\ instCalls[1] = <<"gemini-1.5-flash">>
          /\ model # None => model[1] = instCalls[Len(instCalls)]

C10_Witness ==
    /\ Len(available_models) = 2
    /\ available_models[1].display_name = available_models[2].display_name
    /\ available_models[1].full_name # available_models[2].full_name
    /\ selIdx = 2
    /\ model = Some(available_models[1].full_name)

====
